---- MODULE Spec2Model ----
(***************************************************************************)
(* A model of the self-healing CI engine of fraware/self-healing-CI.       *)
(*                                                                         *)
(*  Part 1  SelfHealingWorkflow, the Temporal workflow that drives one     *)
(*          case through NEW .. DONE | FAILED                              *)
(*          (apps/temporal-worker/src/services/claude-client.ts:200-623).  *)
(*  Part 2  Admission: SelfHealingCIApp.handleWorkflowFailure, the         *)
(*          DeduplicationService and TemporalClient.startSelfHealingWorkflow*)
(*          (apps/github-app).                                             *)
(*  Part 3  LogRedactor and FailureReportBuilder                           *)
(*          (services/claude/src/types/failure-report.ts).                 *)
(*  Part 4  LeanClient.validateProofs (unnamed/part_007).                  *)
(*  Part 5  The surroundings of a run: the clock and                       *)
(*          TemporalClient.cancelWorkflow.                                 *)
(*  Part 6  The execution of a case: the attempts of an activity call and  *)
(*          the runs of the workflow under their retry policies.           *)
(*  Part 7  FreestyleClient.executeTests (unnamed/part_014) and the        *)
(*          runTests activity.                                             *)
(*  Part 8  ClaudeClient.invokeClaude (services/claude).                   *)
(*  Part 9  The workflow_run handler of SelfHealingCIApp and its check     *)
(*          shouldTriggerSelfHealing.                                      *)
(*  Part 10 MorphClient.applyPatch (services/morph).                       *)
(*  Part 11 ClaudeClient.invokeWithFailureReport: the token budget and     *)
(*          truncateFailureReport.                                         *)
(*                                                                         *)
(* Every activity of the workflow is called through proxyActivities        *)
(* (claude-client.ts:179-195): a call either returns a value of the        *)
(* activity's result type or, once the three attempts of the retry policy  *)
(* are used up (error or startToClose timeout), throws into the workflow.  *)
(***************************************************************************)
EXTENDS Integers, Sequences, FiniteSets, TLC

VARIABLES
    \* ---- SelfHealingWorkflow (one run) ----
    pc,               \* position of the run in the workflow function
    currentState,     \* let currentState: WorkflowState
    rootCause,        \* let rootCause: RootCause | undefined
    patchApplied,     \* let patchApplied
    testsPassed,      \* let testsPassed
    proofsValidated,  \* let proofsValidated
    merged,           \* let merged
    error,            \* let error: string | undefined
    err,              \* the exception in flight to the catch block
    diagnosisResult,  \* const diagnosisResult (first diagnosis)
    testResult,       \* const testResult (first test run)
    retryDiagnosisResult, \* const retryDiagnosisResult
    result,           \* the WorkflowResult returned, or NoResult
    stateSeq,         \* history: the values currentState has taken
    statusLog,        \* history: states passed to updateWorkflowStatus
    events,           \* history: event types passed to emitCloudEvent
    calls,            \* history: collaborator activities invoked, with context
    statusFault,      \* history: some updateWorkflowStatus call failed or threw
    emitFault,        \* history: some emitCloudEvent call failed or threw
    nonEmitterError,  \* history: an exception was raised by something else
    \* ---- admission (github-app) ----
    redis,            \* DeduplicationService.redis: "null" | "client"
    workflowClient,   \* TemporalClient.workflowClient: "null" | "client"
    store,            \* the Redis keys: key -> expiry time, 0 = absent
    now,              \* wall clock, seconds
    h,                \* the handlers (calls in progress), one per Handlers
    started,          \* workflows started: sequence of [workflowId, event]
    running,          \* Temporal server: workflow ids with an open execution
    redisFault,       \* history: a Redis command raised an error
    \* ---- FailureReportBuilder (services/claude) ----
    report,           \* FailureReportBuilder.report, the fields on logs
    built,            \* the FailureReport returned by build(), or NoReport
    chain,            \* the caller's position in the chain of builder calls
    \* ---- LeanClient (services/lean) ----
    proofRequest,     \* the ProofValidationRequest, or NoRequest
    proofResult,      \* the ProofValidationResult, or NoValidation
    \* ---- the surroundings of a workflow run ----
    elapsed,          \* minutes since the run started
    cancelRequested,  \* TemporalClient.cancelWorkflow was called for the run
    \* ---- the execution of a case by the Temporal server ----
    exec,             \* runs of the workflow and attempts of an activity
    \* ---- FreestyleClient (unnamed/part_014) ----
    tests,            \* one FreestyleClient.executeTests call and its runTests result
    \* ---- ClaudeClient (services/claude) ----
    api,              \* one ClaudeClient.invokeClaude call: its loop, calls and sleeps
    \* ---- SelfHealingCIApp, workflow_run handler ----
    gate,             \* the last workflow_run event received and the handler's decision
    \* ---- MorphClient (services/morph) ----
    morph,            \* one MorphClient.applyPatch call and the patch at the Morph API
    \* ---- ClaudeClient, token budget ----
    prompt            \* one ClaudeClient.invokeWithFailureReport call: the report and its truncation

\* the workflow's local variables other than currentState and error
locals == <<rootCause, patchApplied, testsPassed, proofsValidated, merged,
            diagnosisResult, testResult, retryDiagnosisResult>>

wfVars == <<pc, currentState, error, err, locals, result, stateSeq, statusLog,
            events, calls, statusFault, emitFault, nonEmitterError>>

admVars == <<redis, workflowClient, store, now, h, started, running,
             redisFault>>

repVars == <<report, built, chain>>

prvVars == <<proofRequest, proofResult>>

envVars == <<elapsed, cancelRequested>>

vars == <<wfVars, admVars, repVars, prvVars, envVars, exec, tests, api, gate, morph, prompt>>

\* what an action of one part leaves alone: the variables of the others
otherThanWf == <<admVars, repVars, prvVars, envVars, exec, tests, api, gate, morph, prompt>>
otherThanWfEnv == <<admVars, repVars, prvVars, exec, tests, api, gate, morph, prompt>>
otherThanAdm == <<wfVars, repVars, prvVars, envVars, exec, tests, api, gate, morph, prompt>>
otherThanRep == <<wfVars, admVars, prvVars, envVars, exec, tests, api, gate, morph, prompt>>
otherThanPrv == <<wfVars, admVars, repVars, envVars, exec, tests, api, gate, morph, prompt>>
otherThanExec == <<wfVars, admVars, repVars, prvVars, envVars, tests, api, gate, morph, prompt>>
otherThanTests == <<wfVars, admVars, repVars, prvVars, envVars, exec, api, gate, morph, prompt>>
otherThanApi == <<wfVars, admVars, repVars, prvVars, envVars, exec, tests, gate, morph, prompt>>
otherThanAdmGate == <<wfVars, repVars, prvVars, envVars, exec, tests, api, morph, prompt>>
otherThanMorph == <<wfVars, admVars, repVars, prvVars, envVars, exec, tests, api, gate, prompt>>
otherThanPrompt == <<wfVars, admVars, repVars, prvVars, envVars, exec, tests, api, gate, morph>>

----------------------------------------------------------------------------
(* Part 1: SelfHealingWorkflow                                              *)

\* enum WorkflowState (NEW is a reserved word of TLA+: the states are written
\* as the strings the enum gives them).
WorkflowState == {"NEW", "DIAGNOSE", "PATCH", "TEST", "PROVE", "MERGE", "DONE",
                  "FAILED"}

UNKNOWN == "UNKNOWN"

RootCause == {"DEP_UPGRADE", "API_CHANGE", "FLAKY_TEST", "CONFIG_ERROR",
              "ENV_ISSUE", "PERMISSION_ERROR", "TIMEOUT", UNKNOWN}

Undefined == "undefined"
NoResult == [state |-> "none"]

\* confidence values of a diagnosis, in hundredths: the fallback result of
\* diagnoseFailure has 0, the mocked API answer 0.8; 0.5 stands for the
\* other values the number may take.
Confidences == {0, 50, 80}

\* DiagnoseFailureResult: the fields the workflow reads. patch is a string
\* or undefined; only its truthiness is read ('' and undefined are falsy).
\* confidence is only logged (line 262).
DiagnoseFailureResult ==
    [rootCause : RootCause, patch : BOOLEAN, confidence : Confidences]

\* RunTestsResult: success, and retryDiagnosis (undefined is falsy).
RunTestsResult == [success : BOOLEAN, retryDiagnosis : BOOLEAN]

\* The outcome of a call through the activity proxy whose value the
\* workflow ignores (updateWorkflowStatus, emitCloudEvent): it returned
\* success = true, returned success = false, or threw.
ActivityOutcome == {"ok", "failed", "throw"}

\* Error messages assigned in the catch block.
ErrApplyPatch == "Failed to apply patch"
ErrMerge == "Failed to merge changes"
ErrActivity == "ActivityFailure"
ErrCancelled == "CancelledFailure"
NoError == "undefined"

NoDiagnosis == [rootCause |-> Undefined, patch |-> FALSE, confidence |-> 0]
NoTestResult == [success |-> FALSE, retryDiagnosis |-> FALSE]

WfInit ==
    /\ pc = "report_new"
    /\ currentState = "NEW"
    /\ rootCause = Undefined
    /\ patchApplied = FALSE
    /\ testsPassed = FALSE
    /\ proofsValidated = FALSE
    /\ merged = FALSE
    /\ error = NoError
    /\ err = NoError
    /\ diagnosisResult = NoDiagnosis
    /\ testResult = NoTestResult
    /\ retryDiagnosisResult = NoDiagnosis
    /\ result = NoResult
    /\ stateSeq = <<"NEW">>
    /\ statusLog = <<>>
    /\ events = <<>>
    /\ calls = <<>>
    /\ statusFault = FALSE
    /\ emitFault = FALSE
    /\ nonEmitterError = FALSE

\* An activity called through the proxy throws: control passes to the catch
\* block with the exception.
ActivityThrows ==
    /\ pc' = "catch"
    /\ err' = ErrActivity
    /\ nonEmitterError' = TRUE

\* await updateWorkflowStatus({ state, ... }): the result is not read.
updateWorkflowStatus(state, to) ==
    /\ statusLog' = Append(statusLog, state)
    /\ \E o \in ActivityOutcome :
          /\ statusFault' = (statusFault \/ o # "ok")
          /\ IF o = "throw"
                THEN ActivityThrows
                ELSE pc' = to /\ UNCHANGED <<err, nonEmitterError>>

\* await emitCloudEvent({ eventType, ... }): the result is not read.
emitCloudEvent(eventType, to) ==
    /\ events' = Append(events, eventType)
    /\ \E o \in ActivityOutcome :
          /\ emitFault' = (emitFault \/ o # "ok")
          /\ IF o = "throw"
                THEN pc' = "catch" /\ err' = ErrActivity
                ELSE pc' = to /\ UNCHANGED err

\* currentState = s; await updateWorkflowStatus({ state: currentState })
EnterState(from, s, to) ==
    /\ pc = from
    /\ currentState' = s
    /\ stateSeq' = Append(stateSeq, s)
    /\ updateWorkflowStatus(s, to)
    /\ UNCHANGED <<error, locals, result, events, calls, emitFault, otherThanWf>>

\* await emitCloudEvent({ eventType: 'workflow.state.<s>' })
EmitState(from, eventType, to) ==
    /\ pc = from
    /\ emitCloudEvent(eventType, to)
    /\ UNCHANGED <<currentState, error, locals, result, stateSeq, statusLog,
                   calls, statusFault, nonEmitterError, otherThanWf>>

\* the record of a collaborator invocation
Call(activity, context) == [activity |-> activity, context |-> context]

\* lines 220-229: the NEW status update (currentState is already NEW)
ReportNew ==
    /\ pc = "report_new"
    /\ updateWorkflowStatus("NEW", "enter_diagnose")
    /\ UNCHANGED <<currentState, error, locals, result, stateSeq, events,
                   calls, emitFault, otherThanWf>>

EnterDiagnose == EnterState("enter_diagnose", "DIAGNOSE", "emit_diagnose")

EmitDiagnose == EmitState("emit_diagnose", "workflow.state.diagnose", "diagnose")

\* lines 255-263
Diagnose ==
    /\ pc = "diagnose"
    /\ calls' = Append(calls, Call("diagnoseFailure", "input"))
    /\ \/ \E r \in DiagnoseFailureResult :
             /\ diagnosisResult' = r
             /\ rootCause' = r.rootCause
             /\ pc' = "enter_patch"
             /\ UNCHANGED <<err, nonEmitterError>>
       \/ /\ ActivityThrows
          /\ UNCHANGED <<diagnosisResult, rootCause>>
    /\ UNCHANGED <<currentState, error, patchApplied, testsPassed,
                   proofsValidated, merged, testResult, retryDiagnosisResult,
                   result, stateSeq, statusLog, events, statusFault, emitFault,
                   otherThanWf>>

EnterPatch == EnterState("enter_patch", "PATCH", "emit_patch")

\* (a variant used to show what C21 excludes: the patch event is emitted
\* before the PATCH status update)
EmitPatchBeforeStatus ==
    EmitState("enter_patch", "workflow.state.patch", "enter_patch")

EmitPatch == EmitState("emit_patch", "workflow.state.patch", "apply_patch")

\* lines 292-295 and 382-385: the condition under which a patch is applied
ShouldApplyPatch(d) == d.rootCause # UNKNOWN /\ d.patch

\* lines 291-318
ApplyPatch ==
    /\ pc = "apply_patch"
    /\ IF ShouldApplyPatch(diagnosisResult)
          THEN /\ calls' = Append(calls, Call("applyPatch", "diagnosis"))
               /\ \/ \E success \in BOOLEAN :
                        /\ patchApplied' = success
                        /\ IF ~success
                              THEN /\ pc' = "catch"
                                   /\ err' = ErrApplyPatch
                                   /\ nonEmitterError' = TRUE
                              ELSE /\ pc' = "enter_test"
                                   /\ UNCHANGED <<err, nonEmitterError>>
                  \/ /\ ActivityThrows
                     /\ UNCHANGED patchApplied
          ELSE /\ pc' = "enter_test"
               /\ UNCHANGED <<calls, patchApplied, err, nonEmitterError>>
    /\ UNCHANGED <<currentState, error, rootCause, testsPassed,
                   proofsValidated, merged, diagnosisResult, testResult,
                   retryDiagnosisResult, result, stateSeq, statusLog, events,
                   statusFault, emitFault, otherThanWf>>

EnterTest == EnterState("enter_test", "TEST", "emit_test")

EmitTest == EmitState("emit_test", "workflow.state.test", "run_tests")

\* lines 347-352 and 398-403: the input of a runTests call. Both calls pass
\* the head of the failed run; patchResult.patchSha is only logged (line 313).
runTestsInput(context) == [headSha |-> "input.headSha"]

\* a retry of the diagnosis after every test run, whatever its result
RetryAfterAnyTest(r) == TRUE

\* lines 363-364: after a failed run, is the diagnosis retried
RetryAfterTest(r) == ~r.success /\ r.retryDiagnosis

\* lines 346-364, 409-411
RunTests ==
    /\ pc = "run_tests"
    /\ calls' = Append(calls, Call("runTests", "first"))
    /\ \/ \E r \in RunTestsResult :
             /\ testResult' = r
             /\ testsPassed' = r.success
             /\ pc' = IF RetryAfterTest(r) THEN "retry_enter" ELSE "enter_prove"
             /\ UNCHANGED <<err, nonEmitterError>>
       \/ /\ ActivityThrows
          /\ UNCHANGED <<testResult, testsPassed>>
    /\ UNCHANGED <<currentState, error, rootCause, patchApplied,
                   proofsValidated, merged, diagnosisResult,
                   retryDiagnosisResult, result, stateSeq, statusLog, events,
                   statusFault, emitFault, otherThanWf>>

\* lines 367-374: back to DIAGNOSE (a status update, no event)
RetryEnterDiagnose == EnterState("retry_enter", "DIAGNOSE", "retry_diagnose")

\* lines 376-385
RetryDiagnose ==
    /\ pc = "retry_diagnose"
    /\ calls' = Append(calls, Call("diagnoseFailure", "testFailure"))
    /\ \/ \E r \in DiagnoseFailureResult :
             /\ retryDiagnosisResult' = r
             /\ pc' = IF ShouldApplyPatch(r) THEN "retry_patch" ELSE "enter_prove"
             /\ UNCHANGED <<err, nonEmitterError>>
       \/ /\ ActivityThrows
          /\ UNCHANGED retryDiagnosisResult
    /\ UNCHANGED <<currentState, error, rootCause, patchApplied, testsPassed,
                   proofsValidated, merged, diagnosisResult, testResult,
                   result, stateSeq, statusLog, events, statusFault, emitFault,
                   otherThanWf>>

\* lines 386-396: the result is only tested; patchApplied is not assigned
RetryApplyPatch ==
    /\ pc = "retry_patch"
    /\ calls' = Append(calls, Call("applyPatch", "retryDiagnosis"))
    /\ \/ \E success \in BOOLEAN :
             /\ pc' = IF success THEN "retry_test" ELSE "enter_prove"
             /\ UNCHANGED <<err, nonEmitterError>>
       \/ ActivityThrows
    /\ UNCHANGED <<currentState, error, locals, result, stateSeq, statusLog,
                   events, statusFault, emitFault, otherThanWf>>

\* (a variant of the retried test run, used to show what C14 excludes: the
\* tests are run again for as long as they fail)
RetryRunTestsUntilPass ==
    /\ pc = "retry_test"
    /\ calls' = Append(calls, Call("runTests", "retry"))
    /\ \/ \E r \in RunTestsResult :
             /\ testsPassed' = r.success
             /\ pc' = IF r.success THEN "enter_prove" ELSE "retry_test"
             /\ UNCHANGED <<err, nonEmitterError>>
       \/ /\ ActivityThrows
          /\ UNCHANGED testsPassed
    /\ UNCHANGED <<currentState, error, rootCause, patchApplied,
                   proofsValidated, merged, diagnosisResult, testResult,
                   retryDiagnosisResult, result, stateSeq, statusLog, events,
                   statusFault, emitFault, otherThanWf>>

\* lines 397-406
RetryRunTests ==
    /\ pc = "retry_test"
    /\ calls' = Append(calls, Call("runTests", "retry"))
    /\ \/ \E r \in RunTestsResult :
             /\ testsPassed' = r.success
             /\ pc' = "enter_prove"
             /\ UNCHANGED <<err, nonEmitterError>>
       \/ /\ ActivityThrows
          /\ UNCHANGED testsPassed
    /\ UNCHANGED <<currentState, error, rootCause, patchApplied,
                   proofsValidated, merged, diagnosisResult, testResult,
                   retryDiagnosisResult, result, stateSeq, statusLog, events,
                   statusFault, emitFault, otherThanWf>>

EnterProve == EnterState("enter_prove", "PROVE", "emit_prove")

EmitProve == EmitState("emit_prove", "workflow.state.prove", "validate_proofs")

\* lines 439-462
ValidateProofs ==
    /\ pc = "validate_proofs"
    /\ IF testsPassed
          THEN /\ calls' = Append(calls, Call("validateProofs", "head"))
               /\ \/ \E success \in BOOLEAN :
                        /\ proofsValidated' = success
                        /\ pc' = "enter_merge"
                        /\ UNCHANGED <<err, nonEmitterError>>
                  \/ /\ ActivityThrows
                     /\ UNCHANGED proofsValidated
          ELSE /\ pc' = "enter_merge"
               /\ UNCHANGED <<calls, proofsValidated, err, nonEmitterError>>
    /\ UNCHANGED <<currentState, error, rootCause, patchApplied, testsPassed,
                   merged, diagnosisResult, testResult, retryDiagnosisResult,
                   result, stateSeq, statusLog, events, statusFault, emitFault,
                   otherThanWf>>

EnterMerge == EnterState("enter_merge", "MERGE", "emit_merge")

EmitMerge == EmitState("emit_merge", "workflow.state.merge", "merge_changes")

\* a merge condition that does not look at the proofs
ShouldMergeAfterTests == testsPassed

\* line 492: the condition under which the merge activity is invoked
ShouldMerge == testsPassed /\ proofsValidated

\* lines 491-531
MergeChanges ==
    /\ pc = "merge_changes"
    /\ IF ShouldMerge
          THEN /\ calls' = Append(calls, Call("mergeChanges", "head"))
               /\ \/ \E success \in BOOLEAN :
                        /\ merged' = success
                        /\ IF ~success
                              THEN /\ pc' = "catch"
                                   /\ err' = ErrMerge
                                   /\ nonEmitterError' = TRUE
                              ELSE /\ pc' = "enter_done"
                                   /\ UNCHANGED <<err, nonEmitterError>>
                  \/ /\ ActivityThrows
                     /\ UNCHANGED merged
          ELSE /\ pc' = "enter_done"
               /\ UNCHANGED <<calls, merged, err, nonEmitterError>>
    /\ UNCHANGED <<currentState, error, rootCause, patchApplied, testsPassed,
                   proofsValidated, diagnosisResult, testResult,
                   retryDiagnosisResult, result, stateSeq, statusLog, events,
                   statusFault, emitFault, otherThanWf>>

EnterDone == EnterState("enter_done", "DONE", "emit_done")

EmitDone == EmitState("emit_done", "workflow.state.done", "return")

\* lines 560-576: the catch block. An exception thrown inside it leaves the
\* workflow function without a result. (When the run is cancelled the block
\* runs as CatchCancelled, below.)
CatchFailed ==
    /\ pc = "catch"
    /\ ~cancelRequested
    /\ currentState' = "FAILED"
    /\ stateSeq' = Append(stateSeq, "FAILED")
    /\ error' = err
    /\ statusLog' = Append(statusLog, "FAILED")
    /\ \E o \in ActivityOutcome :
          /\ statusFault' = (statusFault \/ o # "ok")
          /\ pc' = IF o = "throw" THEN "thrown" ELSE "emit_failed"
    /\ UNCHANGED <<err, locals, result, events, calls, emitFault,
                   nonEmitterError, otherThanWf>>

\* lines 578-591
EmitFailed ==
    /\ pc = "emit_failed"
    /\ events' = Append(events, "workflow.state.failed")
    /\ \E o \in ActivityOutcome :
          /\ emitFault' = (emitFault \/ o # "ok")
          /\ pc' = IF o = "throw" THEN "thrown" ELSE "return"
    /\ UNCHANGED <<currentState, error, err, locals, result, stateSeq,
                   statusLog, calls, statusFault, nonEmitterError, otherThanWf>>

\* lines 594-622
Return ==
    /\ pc = "return"
    /\ result' = [success |-> (currentState = "DONE"),
                  state |-> currentState,
                  rootCause |-> rootCause,
                  patchApplied |-> patchApplied,
                  testsPassed |-> testsPassed,
                  proofsValidated |-> proofsValidated,
                  merged |-> merged,
                  error |-> error]
    /\ pc' = "returned"
    /\ UNCHANGED <<currentState, error, err, locals, stateSeq, statusLog,
                   events, calls, statusFault, emitFault, nonEmitterError,
                   otherThanWf>>

WfNext ==
    \/ ReportNew \/ EnterDiagnose \/ EmitDiagnose \/ Diagnose
    \/ EnterPatch \/ EmitPatch \/ ApplyPatch
    \/ EnterTest \/ EmitTest \/ RunTests
    \/ RetryEnterDiagnose \/ RetryDiagnose \/ RetryApplyPatch \/ RetryRunTests
    \/ EnterProve \/ EmitProve \/ ValidateProofs
    \/ EnterMerge \/ EmitMerge \/ MergeChanges
    \/ EnterDone \/ EmitDone
    \/ CatchFailed \/ EmitFailed \/ Return

----------------------------------------------------------------------------
(* Properties of SelfHealingWorkflow (checked under Spec)                   *)

InSeq(x, q) == \E i \in 1..Len(q) : q[i] = x

Invoked(activity) == \E i \in 1..Len(calls) : calls[i].activity = activity

NumCalls(activity) ==
    Cardinality({i \in 1..Len(calls) : calls[i].activity = activity})

\* The transition graph the specification declares (section 4.3).
NonTerminal == {"NEW", "DIAGNOSE", "PATCH", "TEST", "PROVE", "MERGE"}

DeclaredEdges ==
    {<<"NEW", "DIAGNOSE">>, <<"DIAGNOSE", "PATCH">>, <<"PATCH", "TEST">>,
     <<"TEST", "PROVE">>, <<"PROVE", "MERGE">>, <<"MERGE", "DONE">>,
     <<"TEST", "DIAGNOSE">>}
    \cup {<<s, "FAILED">> : s \in NonTerminal}

\* C1: the sequence of values of currentState is a path of the declared
\* graph: every two consecutive states are joined by a declared edge.
C1_StatesFollowDeclaredGraph ==
    \A i \in 1..(Len(stateSeq) - 1) :
        <<stateSeq[i], stateSeq[i + 1]>> \in DeclaredEdges

\* C2: DONE and FAILED are absorbing: no step changes currentState once it
\* is DONE or FAILED.
C2_TerminalAbsorbing ==
    [][(currentState \in {"DONE", "FAILED"}) => (currentState' = currentState)]_vars

\* C5: a failed test run sends the case back to DIAGNOSE (retry budget 1);
\* a case whose tests did not pass ends in FAILED, and neither the prove nor
\* the merge event is emitted for it.
C5_FailedTestsRetryThenFail ==
    /\ (pc = "enter_prove" /\ NumCalls("runTests") = 1) => testResult.success
    /\ InSeq("workflow.state.prove", events) => testsPassed
    /\ InSeq("workflow.state.merge", events) => testsPassed
    /\ (pc = "returned" /\ Invoked("runTests") /\ ~testsPassed)
       => result.state = "FAILED"

\* the prover was consulted and its verdict was fail
ProofFailed ==
    /\ Invoked("validateProofs")
    /\ pc \notin {"validate_proofs", "catch", "emit_failed", "thrown"}
    /\ ~nonEmitterError
    /\ ~proofsValidated

\* C6: MERGE is entered only on a passing proof verdict; after a failing
\* verdict the case enters neither MERGE nor DONE and ends in FAILED.
C6_MergeOnlyAfterProofPass ==
    /\ (Invoked("validateProofs") /\ InSeq("MERGE", stateSeq)) => proofsValidated
    /\ ProofFailed => ~InSeq("DONE", stateSeq)
    /\ (ProofFailed /\ pc = "returned") => result.state = "FAILED"

\* C7: DONE, and a result with success = true, only after mergeChanges was
\* invoked and returned success; a failed merge never leads to DONE.
C7_DoneOnlyAfterMerge ==
    /\ InSeq("DONE", stateSeq) => (Invoked("mergeChanges") /\ merged)
    /\ (pc = "returned" /\ result.success) => (Invoked("mergeChanges") /\ merged)
    /\ (Invoked("mergeChanges") /\ pc # "merge_changes" /\ ~merged)
       => ~InSeq("DONE", stateSeq)

\* C8: a diagnosis with rootCause UNKNOWN and no patch never enters PATCH:
\* no PATCH state, no PATCH status update, no patch event.
C8_UnknownWithoutPatchSkipsPatch ==
    (diagnosisResult.rootCause = UNKNOWN /\ ~diagnosisResult.patch)
    => /\ ~InSeq("PATCH", stateSeq)
       /\ ~InSeq("PATCH", statusLog)
       /\ ~InSeq("workflow.state.patch", events)

\* the happy path: a patch is offered and applied, the tests pass, the
\* proofs pass, the merge succeeds, and no activity fails
HappyPath ==
    /\ pc = "returned"
    /\ ShouldApplyPatch(diagnosisResult) /\ patchApplied
    /\ testResult.success /\ proofsValidated /\ merged
    /\ ~statusFault /\ ~emitFault /\ ~nonEmitterError

\* C9: on the happy path the case ends in DONE, the events are state.new,
\* state.diagnose, state.patch, state.test, state.prove, state.merge,
\* state.done in this order, each once, and every collaborator is invoked
\* exactly once.
C9_HappyPathEvents ==
    HappyPath =>
        /\ result.state = "DONE"
        /\ events = <<"workflow.state.new", "workflow.state.diagnose",
                      "workflow.state.patch", "workflow.state.test",
                      "workflow.state.prove", "workflow.state.merge",
                      "workflow.state.done">>
        /\ \A a \in {"diagnoseFailure", "applyPatch", "runTests",
                     "validateProofs", "mergeChanges"} : NumCalls(a) = 1

\* C10: emitter failures do not affect the engine. A run in which nothing
\* but emitCloudEvent fails goes through the states of the run in which the
\* emitter works, which never fails the case: so a case is FAILED only if
\* something other than the emitter raised an error.
C10_EmitterFailuresDoNotAffectEngine ==
    currentState = "FAILED" => nonEmitterError

\* (the run C10 compares with: when the emitter works and nothing else
\* raises an error, the case is never FAILED)
EmitterWorksNeverFails ==
    (~emitFault /\ ~nonEmitterError) => currentState # "FAILED"

\* the run is over: the workflow function returned or threw
RunOver == pc \in {"returned", "thrown"}

\* C11: every case that ends in FAILED has produced the final
\* workflow.state.failed event (which carries the error), whatever failed,
\* a failure of the FAILED status update included.
C11_FailedCaseEmitsFailedEvent ==
    (RunOver /\ currentState = "FAILED")
    => InSeq("workflow.state.failed", events)

\* (when the FAILED status update does not throw, the event is emitted)
FailedEventUnlessStatusThrows ==
    (pc \in {"return", "returned"} /\ currentState = "FAILED")
    => events[Len(events)] = "workflow.state.failed"

\* the patcher reported failure for the first patch of the case
FirstPatchFailed == err = ErrApplyPatch /\ NumCalls("applyPatch") = 1

\* C12: a patch failure with retry budget left sends the case back to
\* DIAGNOSE; the case is FAILED only when the budget (2 retries) is used up,
\* so the failure of the first patch never fails the case.
C12_PatchFailureRediagnoses ==
    FirstPatchFailed => currentState # "FAILED"

\* (what the workflow does: the first patch failure is final; the diagnoser
\* is not consulted again and the case never reaches DONE)
PatchFailureIsFinal ==
    err = ErrApplyPatch
    => /\ NumCalls("applyPatch") = 1
       /\ NumCalls("diagnoseFailure") = 1
       /\ ~InSeq("DONE", stateSeq)
       /\ stateSeq[Len(stateSeq)] \in {"PATCH", "FAILED"}

\* the first diagnosis has been received
Diagnosed == diagnosisResult # NoDiagnosis

\* C13: a diagnosis is accepted only when its confidence is at least the
\* threshold 0.5 (50 hundredths); below it the root cause counts as UNKNOWN
\* for the PATCH decision, so no patch of that diagnosis is applied.
C13_LowConfidenceTreatedAsUnknown ==
    (Diagnosed /\ diagnosisResult.confidence < 50)
    => ~InSeq(Call("applyPatch", "diagnosis"), calls)

\* (what the workflow does: the patch decision does not read confidence)
PatchDecisionIgnoresConfidence ==
    /\ InSeq(Call("applyPatch", "diagnosis"), calls)
       => ShouldApplyPatch(diagnosisResult)
    /\ pc = "enter_test"
       => (ShouldApplyPatch(diagnosisResult)
           <=> InSeq(Call("applyPatch", "diagnosis"), calls))

StateEvents == {<<"DIAGNOSE", "workflow.state.diagnose">>,
                <<"PATCH", "workflow.state.patch">>,
                <<"TEST", "workflow.state.test">>,
                <<"PROVE", "workflow.state.prove">>,
                <<"MERGE", "workflow.state.merge">>,
                <<"DONE", "workflow.state.done">>,
                <<"FAILED", "workflow.state.failed">>}

C22_TestsRunOnPatchedRef ==
    patchApplied
    => \A i \in 1..Len(calls) :
          calls[i].activity = "runTests"
          => runTestsInput(calls[i].context).headSha = "patchResult.patchSha"

\* (without a patch the tests run on the head of the failed run, as claimed)
UnpatchedTestsRunOnHead ==
    ~patchApplied
    => \A i \in 1..Len(calls) :
          calls[i].activity = "runTests"
          => runTestsInput(calls[i].context).headSha = "input.headSha"

\* C30: the merge activity is invoked only in a state where testsPassed and
\* proofsValidated are both true; so every returned WorkflowResult has
\* merged => (testsPassed and proofsValidated), and
\* proofsValidated => testsPassed.
C30_MergeOnlyAfterTestsAndProofs ==
    /\ [][(calls' # calls /\ calls'[Len(calls')].activity = "mergeChanges")
             => (testsPassed /\ proofsValidated)]_vars
    /\ [](merged => (testsPassed /\ proofsValidated))
    /\ [](proofsValidated => testsPassed)
    /\ [](pc = "returned"
            => /\ result.merged => (result.testsPassed /\ result.proofsValidated)
               /\ result.proofsValidated => result.testsPassed)

\* a case that was merged and returned
C30_Witness ==
    /\ pc = "returned"
    /\ result.merged
    /\ result.state = "DONE"
    /\ Invoked("mergeChanges")

\* the applyPatch call for the re-diagnosis returned success = false: the
\* call was made, no second test run followed it, and the run went on
RetryPatchFailed ==
    /\ InSeq(Call("applyPatch", "retryDiagnosis"), calls)
    /\ ~InSeq(Call("runTests", "retry"), calls)
    /\ InSeq("PROVE", stateSeq)

\* C31: whenever an applyPatch activity returns success = false the run
\* ends in FAILED, for the patch of the first diagnosis and for the patch
\* of the re-diagnosis alike: no run reaches DONE after a failed patch.
C31_FailedPatchEndsInFailed ==
    (err = ErrApplyPatch \/ RetryPatchFailed)
    => /\ ~InSeq("DONE", stateSeq)
       /\ RunOver => currentState = "FAILED"

\* (the failed patch of the re-diagnosis raises no error: unless something
\* else fails, the run goes through PROVE and MERGE to DONE)
FailedRetryPatchRaisesNoError ==
    (RetryPatchFailed /\ RunOver /\ ~nonEmitterError /\ ~statusFault
        /\ ~emitFault)
    => result.state = "DONE" /\ ~result.testsPassed

\* C32: every run ends by returning a WorkflowResult whose state is DONE or
\* FAILED and whose success flag is true exactly when the state is DONE,
\* whatever the activities do, failures of updateWorkflowStatus and
\* emitCloudEvent inside the failure handler included.
C32_EveryRunReturnsResult ==
    RunOver
    => /\ pc = "returned"
       /\ result.state \in {"DONE", "FAILED"}
       /\ result.success <=> (result.state = "DONE")

\* (a run that does return has such a result; a run ends without one only
\* when an activity call of the catch block threw)
ReturnedResultIsDoneOrFailed ==
    /\ pc = "returned"
       => /\ result.state \in {"DONE", "FAILED"}
          /\ result.success <=> (result.state = "DONE")
    /\ pc = "thrown"
       => /\ currentState = "FAILED"
          /\ statusFault \/ emitFault

\* the positions of stateSeq at which the run went from TEST back to DIAGNOSE
FeedbackEdges ==
    {i \in 1..(Len(stateSeq) - 1) :
        stateSeq[i] = "TEST" /\ stateSeq[i + 1] = "DIAGNOSE"}

\* C33: the feedback edge TEST -> DIAGNOSE is taken at most once per run,
\* and only after a failed test result whose retryDiagnosis flag is set;
\* so diagnoseFailure, applyPatch and runTests are invoked at most twice
\* each, validateProofs and mergeChanges at most once.
C33_FeedbackEdgeAtMostOnce ==
    /\ Cardinality(FeedbackEdges) <= 1
    /\ FeedbackEdges # {} => (~testResult.success /\ testResult.retryDiagnosis)
    /\ NumCalls("diagnoseFailure") <= 2
    /\ NumCalls("applyPatch") <= 2
    /\ NumCalls("runTests") <= 2
    /\ NumCalls("validateProofs") <= 1
    /\ NumCalls("mergeChanges") <= 1

\* a returned run that took the feedback edge and made every call it allows
C33_Witness ==
    /\ pc = "returned"
    /\ Cardinality(FeedbackEdges) = 1
    /\ NumCalls("diagnoseFailure") = 2
    /\ NumCalls("applyPatch") = 2
    /\ NumCalls("runTests") = 2
    /\ NumCalls("validateProofs") = 1
    /\ NumCalls("mergeChanges") = 1

----------------------------------------------------------------------------
(* Part 2: admission                                                        *)

\* Bounds of the admission model.
NumHandlers == 2
TickStep == 1800
MaxTime == 3600

\* config.ttlSeconds || 3600
ttlSeconds == 3600

Handlers == 1..NumHandlers

Repositories == {"acme/app"}
RunIds == {42}
HeadShas == {"abc123", "def456"}

\* the (repository, workflow_run.id, workflow_run.head_sha) of a webhook event
FailureEvents == Repositories \X RunIds \X HeadShas

\* const eventId = `${repository}:${workflowRunId}:${headSha}`
eventId(e) == <<e[1], e[2], e[3]>>

\* const key = `workflow_run:${eventId}`
redisKey(id) == <<"workflow_run", id>>

\* const workflowId = `self-healing-${input.repository}-${input.workflowRunId}`
workflowId(e) == <<"self-healing", e[1], e[2]>>

RedisKeys == {redisKey(eventId(e)) : e \in FailureEvents}
WorkflowIds == {workflowId(e) : e \in FailureEvents}

\* The two entry points of the dedup index: SelfHealingCIApp.
\* handleWorkflowFailure (which calls isDuplicate and then starts the
\* workflow) and DeduplicationService.checkAndStore.
Ops == {"handleWorkflowFailure", "checkAndStore"}

NoEvent == <<"none", 0, "none">>

IdleHandler == [pc |-> "idle", op |-> "none", event |-> NoEvent,
                dup |-> FALSE, startedWf |-> FALSE, degraded |-> FALSE,
                after |-> {}]

AdmInit ==
    /\ redis = "null"
    /\ workflowClient = "null"
    /\ store = [k \in RedisKeys |-> 0]
    /\ now = 0
    /\ h = [p \in Handlers |-> IdleHandler]
    /\ started = <<>>
    /\ running = {}
    /\ redisFault = FALSE

\* redis.get(key): a key set with SETEX is gone once its TTL has elapsed
existing(k) == store[k] > now

\* a call returns: its answer is recorded (after, set when the call begins,
\* is the set of calls that had returned by then)
Finish(p, dup, startedWf, degraded) ==
    [h[p] EXCEPT !.pc = "done", !.dup = dup, !.startedWf = startedWf,
                 !.degraded = h[p].degraded \/ degraded]

\* DeduplicationService.initialize: this.redis is assigned before the
\* connection is tested, so it is set whether or not the test succeeds.
DedupInitialize ==
    /\ redis = "null"
    /\ redis' = "client"
    /\ UNCHANGED <<workflowClient, store, now, h, started, running,
                   redisFault, otherThanAdm>>

\* TemporalClient.initialize
TemporalInitialize ==
    /\ workflowClient = "null"
    /\ workflowClient' = "client"
    /\ UNCHANGED <<redis, store, now, h, started, running, redisFault,
                   otherThanAdm>>

\* A call begins: the app receives a failed workflow_run event, or
\* checkAndStore is called with an event.
Receive(p, e, op) ==
    /\ h[p].pc = "idle"
    /\ h' = [h EXCEPT ![p] = [IdleHandler EXCEPT
                                !.pc = "get", !.op = op, !.event = e,
                                !.after = {q \in Handlers : h[q].pc = "done"}]]
    /\ UNCHANGED <<redis, workflowClient, store, now, started, running,
                   redisFault, otherThanAdm>>

\* (a read step that fails closed: an error of the read is answered
\* 'duplicate')
RedisGetFailClosed(p) ==
    /\ h[p].pc = "get"
    /\ LET k == redisKey(eventId(h[p].event))
           isDup == h[p].op = "handleWorkflowFailure" IN
       IF redis = "null"
          THEN /\ h' = [h EXCEPT ![p].pc = "store", ![p].degraded = TRUE]
               /\ UNCHANGED redisFault
          ELSE \/ /\ existing(k)
                  /\ h' = [h EXCEPT ![p] = Finish(p, TRUE, FALSE, FALSE)]
                  /\ UNCHANGED redisFault
               \/ /\ ~existing(k)
                  /\ h' = [h EXCEPT ![p].pc = "store"]
                  /\ UNCHANGED redisFault
               \/ /\ redisFault' = TRUE
                  /\ h' = [h EXCEPT ![p] = Finish(p, TRUE, FALSE, TRUE)]
    /\ UNCHANGED <<redis, workflowClient, store, now, started, running, otherThanAdm>>

\* The read step. isDuplicate, lines 422-430 and 450-454: without a client
\* the read is skipped; an error is caught and answered 'not a duplicate'.
\* checkAndStore / checkRedis, lines 135-138 and 170-196: without a client,
\* or on an error, checkRedis returns null and the call goes on to store.
\* (this.dynamoDb is never assigned: the DynamoDB branch is not taken.)
RedisGet(p) ==
    /\ h[p].pc = "get"
    /\ LET k == redisKey(eventId(h[p].event))
           isDup == h[p].op = "handleWorkflowFailure" IN
       IF redis = "null"
          THEN /\ h' = [h EXCEPT ![p].pc = "store", ![p].degraded = TRUE]
               /\ UNCHANGED redisFault
          ELSE \/ /\ existing(k)
                  /\ h' = [h EXCEPT ![p] = Finish(p, TRUE, FALSE, FALSE)]
                  /\ UNCHANGED redisFault
               \/ /\ ~existing(k)
                  /\ h' = [h EXCEPT ![p].pc = "store"]
                  /\ UNCHANGED redisFault
               \/ /\ redisFault' = TRUE
                  /\ h' = [h EXCEPT ![p].pc = IF isDup THEN "start" ELSE "store",
                                    ![p].degraded = TRUE]
    /\ UNCHANGED <<redis, workflowClient, store, now, started, running, otherThanAdm>>

\* The store step. isDuplicate / storeEvent, lines 447-449 and 460-485:
\* stores only when there is a client, and a failed store is logged and
\* swallowed. checkAndStore / storeInRedis, lines 147-164 and 272-288:
\* storeInRedis throws without a client or on an error, and checkAndStore
\* catches it. Either way the call answers 'not a duplicate'.
RedisStore(p) ==
    /\ h[p].pc = "store"
    /\ LET k == redisKey(eventId(h[p].event))
           isDup == h[p].op = "handleWorkflowFailure"
           after(degraded) ==
               IF isDup THEN [h[p] EXCEPT !.pc = "start",
                                         !.degraded = h[p].degraded \/ degraded]
                        ELSE Finish(p, FALSE, FALSE, degraded) IN
       /\ IF redis = "null"
             THEN /\ h' = [h EXCEPT ![p] = after(TRUE)]
                  /\ UNCHANGED <<store, redisFault>>
             ELSE \/ /\ store' = [store EXCEPT ![k] = now + ttlSeconds]
                     /\ h' = [h EXCEPT ![p] = after(FALSE)]
                     /\ UNCHANGED redisFault
                  \/ /\ redisFault' = TRUE
                     /\ h' = [h EXCEPT ![p] = after(TRUE)]
                     /\ UNCHANGED store
    /\ UNCHANGED <<redis, workflowClient, now, started, running, otherThanAdm>>

\* handleWorkflowFailure, README.md:368-388, and TemporalClient.
\* startSelfHealingWorkflow, temporal.ts:141-191. Without a workflow client
\* the start throws; the server refuses a workflow id that has an open
\* execution; the handler catches and logs either error.
StartWorkflow(p) ==
    /\ h[p].pc = "start"
    /\ LET id == workflowId(h[p].event) IN
       IF workflowClient = "null" \/ id \in running
          THEN /\ h' = [h EXCEPT ![p] = Finish(p, FALSE, FALSE, FALSE)]
               /\ UNCHANGED <<started, running>>
          ELSE \/ /\ started' = Append(started, [workflowId |-> id,
                                                  event |-> h[p].event])
                  /\ running' = running \cup {id}
                  /\ h' = [h EXCEPT ![p] = Finish(p, FALSE, TRUE, FALSE)]
               \/ /\ h' = [h EXCEPT ![p] = Finish(p, FALSE, FALSE, FALSE)]
                  /\ UNCHANGED <<started, running>>
    /\ UNCHANGED <<redis, workflowClient, store, now, redisFault, otherThanAdm>>

\* A started SelfHealingWorkflow returns (or fails): its id is free again.
WorkflowCloses(id) ==
    /\ id \in running
    /\ running' = running \ {id}
    /\ UNCHANGED <<redis, workflowClient, store, now, h, started,
                   redisFault, otherThanAdm>>

\* Time passes.
Tick ==
    /\ now < MaxTime
    /\ now' = now + TickStep
    /\ UNCHANGED <<redis, workflowClient, store, h, started, running,
                   redisFault, otherThanAdm>>

\* (a cleanup that deletes every key of the index)
cleanupAllKeys ==
    /\ redis = "client"
    /\ store' = [k \in RedisKeys |-> 0]
    /\ UNCHANGED <<redis, workflowClient, now, h, started, running,
                   redisFault, otherThanAdm>>

\* DeduplicationService.cleanup, deduplication.ts:320-347: the script
\* deletes the keys workflow_run:* that have no expiry (ttl == -1) or whose
\* remaining time to live exceeds ttlSeconds. Every key of the index is set
\* with SETEX, so none is without expiry; a key that has expired is gone
\* already. An error of the script is caught and logged.
cleanup ==
    /\ redis = "client"
    /\ \/ store' = [k \in RedisKeys |->
                      IF existing(k) /\ store[k] - now > ttlSeconds
                      THEN 0 ELSE store[k]]
       \/ UNCHANGED store
    /\ UNCHANGED <<redis, workflowClient, now, h, started, running,
                   redisFault, otherThanAdm>>

ReceiveEvent == \E p \in Handlers, e \in FailureEvents, op \in Ops : Receive(p, e, op)
ReadIndex == \E p \in Handlers : RedisGet(p)
WriteIndex == \E p \in Handlers : RedisStore(p)
StartCase == \E p \in Handlers : StartWorkflow(p)
CloseCase == \E id \in WorkflowIds : WorkflowCloses(id)

AdmNext ==
    \/ DedupInitialize \/ TemporalInitialize
    \/ ReceiveEvent \/ ReadIndex \/ WriteIndex \/ StartCase \/ CloseCase
    \/ Tick

----------------------------------------------------------------------------
(* Part 3: LogRedactor and FailureReportBuilder                             *)
(* (services/claude/src/types/failure-report.ts)                            *)

\* Bound: the number of segments of a log passed to the builder.
MaxLogLen == 2

\* A log is a string. It is modelled as the sequence of its segments, each
\* either text that matches no secret pattern or a substring that one of
\* SECRET_PATTERNS matches in full.
PlainText == "npm ERR! Test failed"
GitHubToken == "ghp_<36 alphanumerics>"
AwsKey == "AKIA<16 capitals or digits>"
Segments == {PlainText, GitHubToken, AwsKey}

Placeholder == "[REDACTED]"

\* Two of the six SECRET_PATTERNS, in the order of the array:
\* /gh[po]_[a-zA-Z0-9]{36}/gi and /AKIA[0-9A-Z]{16}/gi.
SECRET_PATTERNS == <<"github-token", "aws-key">>

\* does the pattern match the segment
Matches(pattern, segment) ==
    \/ pattern = "github-token" /\ segment = GitHubToken
    \/ pattern = "aws-key" /\ segment = AwsKey

\* logs.replace(pattern, match => { redactedSecrets.push(match);
\* return '[REDACTED]' }): the text after the replacement, and the matches
replaced(pattern, logs) ==
    [i \in 1..Len(logs) |->
        IF Matches(pattern, logs[i]) THEN Placeholder ELSE logs[i]]

matched(pattern, logs) ==
    SelectSeq(logs, LAMBDA segment : Matches(pattern, segment))

\* LogRedactor.redactLogs, the loop over SECRET_PATTERNS from pattern i on
RECURSIVE redactFrom(_, _, _)
redactFrom(i, redactedLogs, redactedSecrets) ==
    IF i > Len(SECRET_PATTERNS)
       THEN [redactedLogs |-> redactedLogs, redactedSecrets |-> redactedSecrets]
       ELSE redactFrom(i + 1,
                       replaced(SECRET_PATTERNS[i], redactedLogs),
                       redactedSecrets
                           \o matched(SECRET_PATTERNS[i], redactedLogs))

redactLogs(logs) == redactFrom(1, logs, <<>>)

\* the logs a caller may pass
Logs == UNION {[1..n -> Segments] : n \in 0..MaxLogLen}

\* The keys of the argument of setLogs (two of workflowLogs, buildLogs,
\* testLogs, errorLogs), in the order Object.entries gives them.
LogKeys == <<"buildLogs", "testLogs">>

\* a key that is not set (undefined)
Absent == <<"undefined">>

\* the argument of setLogs: each key is a log or is absent
LogsInput == [{LogKeys[i] : i \in 1..Len(LogKeys)} -> Logs \cup {Absent}]

\* if (log): undefined and the empty string are skipped
Truthy(log) == log # Absent /\ log # <<>>

\* setLogs, the loop over Object.entries(logs) from entry i on
RECURSIVE setLogsFrom(_, _, _, _)
setLogsFrom(i, logs, redactedLogs, allRedactedSecrets) ==
    IF i > Len(LogKeys)
       THEN [logs |-> redactedLogs, redactedSecrets |-> allRedactedSecrets]
       ELSE LET key == LogKeys[i]
                r == redactLogs(logs[key]) IN
            IF Truthy(logs[key])
               THEN setLogsFrom(i + 1, logs,
                                [redactedLogs EXCEPT ![key] = r.redactedLogs],
                                allRedactedSecrets \o r.redactedSecrets)
               ELSE setLogsFrom(i + 1, logs, redactedLogs, allRedactedSecrets)

NoLogs == [k \in {LogKeys[i] : i \in 1..Len(LogKeys)} |-> Absent]

NoReport == [state |-> "none"]

\* private report = { logs: { redactedSecrets: [] }, testOutput:
\* { failedTests: [] }, ... }
RepInit ==
    /\ report = [logs |-> NoLogs, redactedSecrets |-> <<>>,
                 testResults |-> Absent]
    /\ built = NoReport
    /\ chain = "new"

\* FailureReportBuilder.setLogs(logs)
setLogs(logs) ==
    LET r == setLogsFrom(1, logs, NoLogs, <<>>) IN
    /\ report' = [report EXCEPT !.logs = r.logs,
                                !.redactedSecrets = r.redactedSecrets]
    /\ UNCHANGED <<built, otherThanRep>>

\* FailureReportBuilder.setTestOutput({ testResults }): stored as given
setTestOutput(testResults) ==
    /\ report' = [report EXCEPT !.testResults = testResults]
    /\ UNCHANGED <<built, otherThanRep>>

\* FailureReportBuilder.build(): the report, validated against the schema
\* (the schema constrains none of the fields modelled)
build ==
    /\ built' = report
    /\ UNCHANGED <<report, otherThanRep>>

\* The caller: one chain of calls on a new builder,
\* new FailureReportBuilder().setLogs(..).setTestOutput(..).build()
\* (each method assigns the fields of its own argument only).
SetLogs ==
    /\ chain = "new"
    /\ chain' = "setLogs"
    /\ \E logs \in LogsInput : setLogs(logs)

SetTestOutput ==
    /\ chain = "setLogs"
    /\ chain' = "setTestOutput"
    /\ \E t \in Logs \cup {Absent} : setTestOutput(t)

Build ==
    /\ chain = "setTestOutput"
    /\ chain' = "build"
    /\ build

RepNext == SetLogs \/ SetTestOutput \/ Build

----------------------------------------------------------------------------
(* Part 4: LeanClient.validateProofs (src/unnamed/part_007,                 *)
(* services/lean/src/types/proofs.ts)                                       *)

\* Bound: the number of invariants of a request.
MaxInvariants == 2

\* criticality: z.enum(['low', 'medium', 'high', 'critical'])
Criticality == <<"low", "medium", "high", "critical">>

CriticalityLevels == {Criticality[i] : i \in 1..Len(Criticality)}

\* status of a theorem
TheoremStatus == {"proven", "unproven", "sorry", "error"}

\* request.invariants: the invariant at position i has the name i; of its
\* fields only the criticality is modelled
InvariantLists == UNION {[1..n -> CriticalityLevels] : n \in 0..MaxInvariants}

\* request.maxTheorems: fewer than the invariants, or the default 100
MaxTheoremsValues == {1, 100}

NoRequest == [state |-> "none"]
NoValidation == [state |-> "none"]

PrvInit ==
    /\ proofRequest = NoRequest
    /\ proofResult = NoValidation

\* generateTheoremsFromInvariants: one theorem for each invariant, in order,
\* until there are maxTheorems
generateTheoremsFromInvariants(invariants, maxTheorems) ==
    LET n == IF Len(invariants) <= maxTheorems THEN Len(invariants)
                                               ELSE maxTheorems IN
    [i \in 1..n |-> [name |-> i, status |-> "unproven"]]

\* validateTheoremsParallel: each theorem with the status parsed from the
\* output of Lean (lean[i] for the i-th theorem), in the order given
validateTheoremsParallel(theorems, lean) ==
    [i \in 1..Len(theorems) |-> [theorems[i] EXCEPT !.status = lean[i]]]

WithStatus(theorems, status) ==
    SelectSeq(theorems, LAMBDA t : t.status = status)

\* lines 72-102: the aggregation of the results
aggregate(validationResults) ==
    LET validatedTheorems == WithStatus(validationResults, "proven")
        failedTheorems ==
            SelectSeq(validationResults, LAMBDA t : t.status # "proven")
        summary == [total |-> Len(validationResults),
                    proven |-> Len(validatedTheorems),
                    unproven |-> Len(WithStatus(failedTheorems, "unproven")),
                    sorry |-> Len(WithStatus(failedTheorems, "sorry")),
                    error |-> Len(WithStatus(failedTheorems, "error"))] IN
    [success |-> summary.proven > 0,
     validatedTheorems |-> validatedTheorems,
     failedTheorems |-> failedTheorems,
     summary |-> summary,
     error |-> FALSE]

\* lines 103-125: the result when the validation throws
validationError ==
    [success |-> FALSE,
     validatedTheorems |-> <<>>,
     failedTheorems |-> <<>>,
     summary |-> [total |-> 0, proven |-> 0, unproven |-> 0, sorry |-> 0,
                  error |-> 1],
     error |-> TRUE]

\* LeanClient.validateProofs(request), Lean answering lean[i] for theorem i
validateProofs(request, lean) ==
    aggregate(validateTheoremsParallel(
        generateTheoremsFromInvariants(request.invariants,
                                       request.maxTheorems), lean))

\* a request arrives
ProofRequest ==
    /\ proofRequest = NoRequest
    /\ \E invariants \in InvariantLists, maxTheorems \in MaxTheoremsValues :
          proofRequest' = [invariants |-> invariants,
                           maxTheorems |-> maxTheorems]
    /\ UNCHANGED <<proofResult, otherThanPrv>>

\* the request is answered: Lean gives a status for each theorem, or the
\* workspace cannot be created and the catch block answers
AnswerProofRequest ==
    /\ proofRequest # NoRequest
    /\ proofResult = NoValidation
    /\ \/ \E lean \in [1..MaxInvariants -> TheoremStatus] :
             proofResult' = validateProofs(proofRequest, lean)
       \/ proofResult' = validationError
    /\ UNCHANGED <<proofRequest, otherThanPrv>>

PrvNext == ProofRequest \/ AnswerProofRequest

----------------------------------------------------------------------------
(* Part 5: the surroundings of a run: time and cancellation                 *)

\* Bounds of the clock, in minutes. One call through the activity proxy may
\* last up to three attempts of five minutes (startToCloseTimeout,
\* maximumAttempts), so a step of the clock fits within any one call.
ClockStep == 15
MaxElapsed == 30

EnvInit ==
    /\ elapsed = 0
    /\ cancelRequested = FALSE

\* Time passes while the run is in progress. The workflow reads the clock
\* for timestamps and for the duration it logs (lines 203, 594) only.
Clock ==
    /\ pc \notin {"returned", "thrown"}
    /\ elapsed < MaxElapsed
    /\ elapsed' = elapsed + ClockStep
    /\ UNCHANGED <<cancelRequested, wfVars, otherThanWfEnv>>

\* the positions of the try block (lines 220-559): the run awaits an
\* activity called from there
InTryBlock == pc \notin {"catch", "emit_failed", "return", "returned", "thrown"}

\* TemporalClient.cancelWorkflow (temporal.ts:236-257): handle.cancel()
\* requests the cancellation of the run. The workflow function runs in the
\* cancellable root scope: the activity call it awaits is rejected with a
\* CancelledFailure, which the try block catches.
cancelWorkflow ==
    /\ InTryBlock
    /\ ~cancelRequested
    /\ cancelRequested' = TRUE
    /\ pc' = "catch"
    /\ err' = ErrCancelled
    /\ nonEmitterError' = TRUE
    /\ UNCHANGED <<currentState, error, locals, result, stateSeq, statusLog,
                   events, calls, statusFault, emitFault, elapsed,
                   otherThanWfEnv>>

\* lines 560-570 in a cancelled run: the catch block assigns currentState
\* and error; updateWorkflowStatus, called in the cancelled scope (the block
\* does not use a non-cancellable scope), is rejected without being
\* scheduled, and the CancelledFailure leaves the workflow function.
CatchCancelled ==
    /\ pc = "catch"
    /\ cancelRequested
    /\ currentState' = "FAILED"
    /\ stateSeq' = Append(stateSeq, "FAILED")
    /\ error' = err
    /\ pc' = "thrown"
    /\ UNCHANGED <<err, locals, result, statusLog, events, calls, statusFault,
                   emitFault, nonEmitterError, otherThanWf>>

----------------------------------------------------------------------------
(* Part 6: the execution of a case: activity attempts and workflow runs     *)

\* proxyActivities retry.maximumAttempts (claude-client.ts:192): the
\* attempts of one activity call
maximumAttempts == 3

\* workflowClient.start retry.maximumAttempts (temporal.ts:165): the runs
\* of one workflow id
workflowMaximumAttempts == 3

\* The execution follows one activity call of the try block (site "try")
\* and, when that call throws, the updateWorkflowStatus call of the catch
\* block (site "catch").
\*   run          the number of the workflow run
\*   attempt      the number of the attempt of the call in flight
\*   started      a worker has started the attempt's activity function
\*   invocations  times the function of the try-block activity was started
\*   crashes      attempts of it that were lost with their worker
\*   status       of the workflow execution: running | completed | failed
ExecInit ==
    exec = [run |-> 1, site |-> "try", attempt |-> 1, started |-> FALSE,
            invocations |-> 0, crashes |-> 0, status |-> "running"]

\* a worker takes the activity task and calls the activity function
StartAttempt ==
    /\ exec.status = "running"
    /\ ~exec.started
    /\ exec' = [exec EXCEPT
                  !.started = TRUE,
                  !.invocations = IF exec.site = "try" THEN @ + 1 ELSE @]
    /\ UNCHANGED otherThanExec

\* The attempt returns a result: the workflow goes on. After the call of
\* the try block the rest of the run is left out; after the status update
\* of the catch block the workflow returns its result. Either way the
\* execution completes.
AttemptReturns ==
    /\ exec.status = "running"
    /\ exec.started
    /\ exec' = [exec EXCEPT !.started = FALSE, !.status = "completed"]
    /\ UNCHANGED otherThanExec

\* what follows an attempt without a result: the retry policy schedules the
\* next attempt; after the last one the call throws an ActivityFailure. In
\* the try block it is caught (line 560); thrown in the catch block it
\* fails the execution, and the workflow's retry policy starts the next run
\* from the beginning.
afterFailedAttempt(x) ==
    IF x.attempt < maximumAttempts
       THEN [x EXCEPT !.started = FALSE, !.attempt = @ + 1]
    ELSE IF x.site = "try"
       THEN [x EXCEPT !.started = FALSE, !.attempt = 1, !.site = "catch"]
    ELSE IF x.run < workflowMaximumAttempts
       THEN [x EXCEPT !.started = FALSE, !.attempt = 1, !.site = "try",
                      !.run = @ + 1]
    ELSE [x EXCEPT !.started = FALSE, !.status = "failed"]

\* The worker crashes in the middle of the activity function: no result is
\* recorded, and the attempt ends by its startToCloseTimeout.
WorkerCrashes ==
    /\ exec.status = "running"
    /\ exec.started
    /\ exec' = afterFailedAttempt(
                  [exec EXCEPT !.crashes = IF exec.site = "try"
                                              THEN @ + 1 ELSE @])
    /\ UNCHANGED otherThanExec

\* the attempt fails otherwise: the activity function throws, or runs into
\* the startToCloseTimeout
AttemptFails ==
    /\ exec.status = "running"
    /\ exec.started
    /\ exec' = afterFailedAttempt(exec)
    /\ UNCHANGED otherThanExec

ExecNext == StartAttempt \/ AttemptReturns \/ WorkerCrashes \/ AttemptFails

----------------------------------------------------------------------------
(* Part 7: FreestyleClient.executeTests (src/unnamed/part_014) and the     *)
(* runTests activity (apps/temporal-worker/src/activities/run-tests.ts)    *)

\* bound: the largest retryCount of a TestExecutionRequest
MaxRetryCount == 4

Abs(x) == IF x < 0 THEN 0 - x ELSE x

NoExecution == [status |-> "none"]

TestsInit ==
    tests = [pc |-> "idle", retryCount |-> 0, deterministic |-> TRUE,
             attempt |-> 1, retryResults |-> <<>>,
             executed |-> NoExecution, activity |-> NoExecution]

\* part_014:347-365. The score is a fraction: num / den.
\* Math.abs(0.5 - successCount / totalCount) * 2 = |totalCount -
\* 2 * successCount| / totalCount; Math.min(.., 1.0) leaves it as it is.
calculateFlakinessConfidence(retryResults) ==
    LET totalCount == Len(retryResults)
        successCount == Cardinality({i \in 1..totalCount : retryResults[i]})
    IN  IF totalCount < 2
        THEN [num |-> 0, den |-> 1]
        ELSE [num |-> Abs(totalCount - 2 * successCount), den |-> totalCount]

\* part_014:310-341, the fields isFlaky and confidence
detectFlakiness(retryResults) ==
    LET n == Len(retryResults)
    IN  [isFlaky |-> /\ \E i \in 1..n : retryResults[i]
                     /\ \E i \in 1..n : ~retryResults[i],
         confidence |-> calculateFlakinessConfidence(retryResults)]

\* part_014:495-534, the status of the aggregated result
aggregateTestResults(retryResults) ==
    LET totalCount == Len(retryResults)
        successCount == Cardinality({i \in 1..totalCount : retryResults[i]})
    IN  IF successCount = totalCount THEN "passed"
        ELSE IF successCount = 0 THEN "failed"
        ELSE "flaky"

\* run-tests.ts:63-69: what the activity hands to the workflow of the
\* client's result (output, error and duration are texts and times)
runTests(clientResult) ==
    [success |-> clientResult.success, retryDiagnosis |-> Undefined]

\* part_014:42-66: executeTests is called; the test suite configuration is
\* looked up and the container created. A failure to create it is caught
\* (lines 102-115).
ExecuteTests ==
    /\ tests.pc = "idle"
    /\ \E n \in 0..MaxRetryCount, d \in BOOLEAN, created \in BOOLEAN :
          IF created
          THEN tests' = [tests EXCEPT !.pc = "running", !.retryCount = n,
                                      !.deterministic = d]
          ELSE LET r == [status |-> "error", success |-> FALSE,
                         testResults |-> "none",
                         flakinessScore |-> [num |-> 0, den |-> 1]]
               IN  tests' = [tests EXCEPT !.pc = "done", !.retryCount = n,
                                          !.deterministic = d,
                                          !.executed = r,
                                          !.activity = runTests(r)]
    /\ UNCHANGED otherThanTests

\* (an iteration that ends the loop at the first passing run of any suite)
ExecuteSingleTestRunStopOnPass ==
    /\ tests.pc = "running"
    /\ tests.attempt <= tests.retryCount
    /\ \E success \in BOOLEAN :
          tests' = [tests EXCEPT
                      !.retryResults = Append(@, success),
                      !.attempt = IF success
                                  THEN tests.retryCount + 1
                                  ELSE @ + 1]
    /\ UNCHANGED otherThanTests

\* part_014:191-222, one iteration of executeTestsWithRetries: a run that
\* throws is recorded as a failed run; a passing run of a suite that is not
\* deterministic ends the loop.
ExecuteSingleTestRun ==
    /\ tests.pc = "running"
    /\ tests.attempt <= tests.retryCount
    /\ \E success \in BOOLEAN :
          tests' = [tests EXCEPT
                      !.retryResults = Append(@, success),
                      !.attempt = IF success /\ ~tests.deterministic
                                  THEN tests.retryCount + 1
                                  ELSE @ + 1]
    /\ UNCHANGED otherThanTests

\* part_014:74-99 and run-tests.ts:54-69: the loop is over; the result of
\* executeTests is built and the activity returns
ReturnTestResult ==
    /\ tests.pc = "running"
    /\ tests.attempt > tests.retryCount
    /\ LET rr == tests.retryResults
           r == [status |-> "ok",
                 success |-> \E i \in 1..Len(rr) : rr[i],
                 testResults |-> aggregateTestResults(rr),
                 flakinessScore |-> detectFlakiness(rr).confidence]
       IN  tests' = [tests EXCEPT !.pc = "done", !.executed = r,
                                  !.activity = runTests(r)]
    /\ UNCHANGED otherThanTests

TestsNext == ExecuteTests \/ ExecuteSingleTestRun \/ ReturnTestResult

----------------------------------------------------------------------------
(* Part 8: ClaudeClient.invokeClaude (services/claude/src/claude-client.ts) *)

\* bound: the largest options.retryAttempts of an invocation
MaxRetryAttempts == 6

defaultRetryAttempts == 3
baseDelay == 1000
maxDelay == 30000

\* Math.random() * 1000 (line 499), milliseconds in [0, 1000)
Jitters == {0, 500, 999}

\* Error messages, as sequences of words. The first four are transient
\* failures of the API, the last three are not.
ErrorMessages ==
    { <<"rate_limit_exceeded">>, <<"NETWORK_ERROR">>, <<"server_error">>,
      <<"request", "timeout">>,
      <<"authentication_error">>, <<"invalid_request_error">>,
      <<"invalid_request_error", "timeout", "must", "be", "positive">> }

\* String.prototype.toLowerCase, on the words of the messages
toLowerCase(word) == IF word = "NETWORK_ERROR" THEN "network_error" ELSE word

\* a classifier that takes every error for a transient one
isAnyError(message) == TRUE

\* lines 478-490: the message, in lower case, includes one of the five
\* texts
isRetryableError(message) ==
    LET retryableErrors == {"rate_limit_exceeded", "timeout", "network_error",
                            "server_error", "temporary_error"}
    IN  \E i \in 1..Len(message) : toLowerCase(message[i]) \in retryableErrors

\* lines 495-500: the jitter is added after the cap is applied
calculateBackoffDelay(attempt, random) ==
    LET delay == IF baseDelay * 2^attempt < maxDelay
                 THEN baseDelay * 2^attempt ELSE maxDelay
    IN  delay + random

ApiInit ==
    api = [pc |-> "idle", retryAttempts |-> 0, attempt |-> 0,
           lastError |-> <<>>, retryCount |-> 0, created |-> 0,
           slept |-> 0, backoffDelay |-> 0, result |-> "none"]

\* lines 129-135: invokeClaude is called; options.retryAttempts || default
invokeClaude ==
    /\ api.pc = "idle"
    /\ \E k \in 0..MaxRetryAttempts :
          api' = [api EXCEPT !.pc = "attempt",
                             !.retryAttempts = IF k = 0
                                               THEN defaultRetryAttempts
                                               ELSE k]
    /\ UNCHANGED otherThanApi

\* lines 137-191, one iteration up to its return, break or sleep: the call
\* client.messages.create answers, or throws and the catch block decides.
\* (The loop condition never ends the loop: a sleep is reached only with
\* attempt < retryAttempts.)
MessagesCreate ==
    /\ api.pc = "attempt"
    /\ api.attempt <= api.retryAttempts
    /\ \/ api' = [api EXCEPT !.pc = "returned", !.created = @ + 1,
                             !.result = "response"]
       \/ \E message \in ErrorMessages, random \in Jitters :
             IF api.attempt < api.retryAttempts /\ isRetryableError(message)
             THEN api' = [api EXCEPT
                            !.pc = "sleep", !.created = @ + 1,
                            !.lastError = message,
                            !.retryCount = api.attempt,
                            !.backoffDelay =
                                calculateBackoffDelay(api.attempt, random)]
             ELSE api' = [api EXCEPT
                            !.pc = "returned", !.created = @ + 1,
                            !.lastError = message,
                            !.retryCount = api.attempt,
                            !.result = "fallback"]
    /\ UNCHANGED otherThanApi

\* line 187 and the loop's attempt++: the sleep is over
sleep ==
    /\ api.pc = "sleep"
    /\ api' = [api EXCEPT !.pc = "attempt", !.attempt = @ + 1,
                          !.slept = @ + 1]
    /\ UNCHANGED otherThanApi

ApiNext == invokeClaude \/ MessagesCreate \/ sleep

----------------------------------------------------------------------------
(* Part 9: the workflow_run handler of SelfHealingCIApp                     *)
(* (apps/temporal-worker/README.md:159-182, 315-339)                        *)

\* const twentyFourHours = 24 * 60 * 60 * 1000
twentyFourHours == 86400000

\* workflow_run.conclusion, workflow_run.name and the age of the run when
\* the event arrives (Date.now() minus created_at, milliseconds)
Conclusions == {"failure", "success"}
WorkflowNames == {"test", "deploy"}
Ages == {0, twentyFourHours, twentyFourHours + 1}

NoRun == [conclusion |-> "none", name |-> "none", age |-> 0]

GateInit == gate = [last |-> NoRun, triggered |-> FALSE]

\* a check that looks at the conclusion and the name only, not at the age
shouldTriggerWhateverAge(workflowRun, nowMs) ==
    /\ workflowRun.conclusion = "failure"
    /\ toLowerCase(workflowRun.name) \in {"CI", "test", "build", "lint"}

\* README.md:315-339, with nowMs the value of Date.now(). The names of the
\* model are single words: includes is membership.
shouldTriggerSelfHealing(workflowRun, nowMs) ==
    LET runTime == workflowRun.created_at
        supportedWorkflows == {"CI", "test", "build", "lint"}
        workflowName == toLowerCase(workflowRun.name)
    IN  IF workflowRun.conclusion # "failure" THEN FALSE
        ELSE IF nowMs - runTime > twentyFourHours THEN FALSE
        ELSE workflowName \in supportedWorkflows

\* README.md:161-182: a workflow_run event arrives at handler p. If
\* shouldTriggerSelfHealing accepts it, handleWorkflowFailure is entered
\* with it; otherwise the handler returns.
OnWorkflowRun(p, e, conclusion, name, age) ==
    LET nowMs == now * 1000
        workflowRun == [conclusion |-> conclusion, name |-> name,
                        created_at |-> nowMs - age]
        trigger == shouldTriggerSelfHealing(workflowRun, nowMs)
    IN  /\ h[p].pc = "idle"
        /\ gate' = [last |-> [conclusion |-> conclusion, name |-> name,
                              age |-> nowMs - workflowRun.created_at],
                    triggered |-> trigger]
        /\ h' = IF trigger
                THEN [h EXCEPT ![p] = [IdleHandler EXCEPT
                         !.pc = "get", !.op = "handleWorkflowFailure",
                         !.event = e,
                         !.after = {q \in Handlers : h[q].pc = "done"}]]
                ELSE h
        /\ UNCHANGED <<redis, workflowClient, store, now, started, running,
                       redisFault, otherThanAdmGate>>

WorkflowRunEvent ==
    \E p \in Handlers, e \in FailureEvents, c \in Conclusions,
       n \in WorkflowNames, a \in Ages : OnWorkflowRun(p, e, c, n, a)

GateNext ==
    \/ DedupInitialize \/ TemporalInitialize
    \/ WorkflowRunEvent \/ ReadIndex \/ WriteIndex \/ StartCase \/ CloseCase
    \/ Tick

----------------------------------------------------------------------------
(* Part 10: MorphClient.applyPatch (services/morph/src/morph-client.ts)     *)

\* bound: the largest request.maxRetries of a PatchRequest
MaxPatchRetries == 2

\* A PatchRequest, as far as validatePatch and handleCompilationFailure
\* read it: the patch is described by what the checks compute from it.
PatchRequests ==
    [maxRetries : 0..MaxPatchRetries,
     validFormat : BOOLEAN,         \* isValidPatchFormat(request.patch)
     fileChanges : {1, 11},         \* parsePatchFiles(request.patch).length
     linesChanged : {10, 1001},     \* countLinesChanged(request.patch)
     fileExt : {".ts", ".exe"},     \* the extension of the files changed
     forbidden : BOOLEAN,           \* a forbidden pattern matches the patch
     safetyLevel : {"SAFE", "DANGEROUS"}]

NoPatchRequest == [maxRetries |-> 0]

MorphInit ==
    morph = [pc |-> "idle", request |-> NoPatchRequest, errors |-> {},
             posts |-> 0, applied |-> FALSE, success |-> FALSE]

\* lines 189-241, with DEFAULT_VALIDATION_RULES (types/patch.ts:167-193):
\* the set of errors
validatePatch(request) ==
    LET maxFileChanges == 10
        maxLinesChanged == 1000
        allowedFileTypes == {".ts", ".js", ".tsx", ".jsx", ".json", ".md",
                             ".yml", ".yaml", ".rs", ".py", ".go", ".java",
                             ".cpp", ".c", ".h", ".hpp"}
    IN  (IF ~request.validFormat THEN {"Invalid patch format"} ELSE {})
        \cup (IF request.fileChanges > maxFileChanges
              THEN {"Too many files changed"} ELSE {})
        \cup (IF request.linesChanged > maxLinesChanged
              THEN {"Too many lines changed"} ELSE {})
        \cup (IF request.fileExt \notin allowedFileTypes
              THEN {"File type not allowed"} ELSE {})
        \cup (IF request.forbidden
              THEN {"Forbidden pattern found in patch"} ELSE {})
        \cup (IF request.safetyLevel = "DANGEROUS"
              THEN {"Patch safety level is DANGEROUS"} ELSE {})

\* lines 51-75: applyPatch is called; the patch is validated first
applyPatch ==
    /\ morph.pc = "idle"
    /\ \E request \in PatchRequests :
          LET errors == validatePatch(request)
          IN  morph' = [morph EXCEPT
                          !.request = request, !.errors = errors,
                          !.pc = IF errors = {} THEN "post" ELSE "done"]
    /\ UNCHANGED otherThanMorph

\* lines 77-86 and 134-184: POST /apply-patch. On an answer the patch has
\* been applied by the Morph API; an error of the request is returned as a
\* failure.
applyPatchWithMorph ==
    /\ morph.pc = "post"
    /\ \/ morph' = [morph EXCEPT !.posts = @ + 1, !.applied = TRUE,
                                 !.pc = "compile"]
       \/ morph' = [morph EXCEPT !.posts = @ + 1, !.pc = "done"]
    /\ UNCHANGED otherThanMorph

\* (a compilation check that applies the patch again while the request has
\* retries left)
validateCompilationAndRetry ==
    /\ morph.pc = "compile"
    /\ \/ morph' = [morph EXCEPT !.success = TRUE, !.pc = "done"]
       \/ IF morph.request.maxRetries > 0
          THEN morph' = [morph EXCEPT
                           !.request.maxRetries = @ - 1, !.pc = "post"]
          ELSE morph' = [morph EXCEPT !.pc = "done"]
    /\ UNCHANGED otherThanMorph

\* lines 88-114, 246-290 and 295-332: the compilation of the patched
\* repository is checked in a temporary workspace. When it fails,
\* handleCompilationFailure builds a retry request if request.maxRetries > 0
\* but does not use it (line 321, TODO), and returns the failure.
validateCompilation ==
    /\ morph.pc = "compile"
    /\ \/ morph' = [morph EXCEPT !.success = TRUE, !.pc = "done"]
       \/ morph' = [morph EXCEPT !.pc = "done"]
    /\ UNCHANGED otherThanMorph

MorphNext == applyPatch \/ applyPatchWithMorph \/ validateCompilation

----------------------------------------------------------------------------
(* Part 11: ClaudeClient.invokeWithFailureReport, the token budget          *)
(* (services/claude/src/claude-client.ts:60-117, 422-473)                   *)

defaultMaxTokens == 16000

\* A FailureReport is described by the lengths, in characters, of the five
\* fields truncateFailureReport names; its other fields are empty.
PromptInit ==
    prompt = [pc |-> "idle", maxTokens |-> 0, truncating |-> FALSE,
              report |-> [failureMessage |-> 0, errorLogs |-> 0,
                          testLogs |-> 0, diff |-> 0, failedTests |-> 0]]

\* lines 422-425: Math.ceil(text.length / 4), on the length of the text
estimateTokenCount(length) == (length + 3) \div 4

\* lines 359-400: the length of the user prompt, counting the contents of
\* the five fields only (the fixed text of the template, the other fields
\* and the system prompt make the prompt longer)
buildUserPrompt(failureReport) ==
    failureReport.failureMessage + failureReport.errorLogs
    + failureReport.testLogs + failureReport.diff + failureReport.failedTests

\* lines 430-473: errorLogs, testLogs and diff, when not empty and longer
\* than charsPerField, are cut to substring(0, charsPerField) + '...'
truncateFailureReport(failureReport, maxTokens) ==
    LET charsPerField == (maxTokens * 4) \div 5
        cut(length) == IF length > 0 /\ length > charsPerField
                       THEN charsPerField + 3 ELSE length
    IN  [failureReport EXCEPT !.errorLogs = cut(@), !.testLogs = cut(@),
                              !.diff = cut(@)]

\* lines 77-108: the prompt is built and its size estimated; when the
\* estimate exceeds 0.8 * maxTokens the report is truncated and the prompt
\* built again
invokeWithFailureReport ==
    /\ prompt.pc = "idle"
    /\ \E options \in {10, 20},
          failureReport \in [failureMessage : {0, 8, 100},
                             errorLogs : {0, 8, 100}, testLogs : {0, 8, 100},
                             diff : {0, 8, 100}, failedTests : {0, 8, 100}] :
          LET maxTokens == IF options < defaultMaxTokens
                           THEN options ELSE defaultMaxTokens
              estimatedTokens ==
                  estimateTokenCount(buildUserPrompt(failureReport))
              truncating == estimatedTokens * 10 > maxTokens * 8
          IN  prompt' = [pc |-> "invoke", maxTokens |-> maxTokens,
                         truncating |-> truncating,
                         report |-> IF truncating
                                    THEN truncateFailureReport(failureReport,
                                                               maxTokens)
                                    ELSE failureReport]
    /\ UNCHANGED otherThanPrompt

Init ==
    /\ WfInit /\ AdmInit /\ RepInit /\ PrvInit /\ EnvInit /\ ExecInit
    /\ TestsInit /\ ApiInit /\ GateInit /\ MorphInit /\ PromptInit

Spec == Init /\ [][WfNext]_vars

AdmissionSpec == Init /\ [][AdmNext]_vars

ReportSpec == Init /\ [][RepNext]_vars

ProverSpec == Init /\ [][PrvNext]_vars

ExecSpec == Init /\ [][ExecNext]_vars

TestsSpec == Init /\ [][TestsNext]_vars

ApiSpec == Init /\ [][ApiNext]_vars

GateSpec == Init /\ [][GateNext]_vars

MorphSpec == Init /\ [][MorphNext]_vars

PromptSpec == Init /\ [][invokeWithFailureReport]_vars

\* admission with DeduplicationService.cleanup called at any time
CleanupSpec == Init /\ [][AdmNext \/ cleanup]_vars

\* a run and the clock
TimedSpec == Init /\ [][WfNext \/ Clock]_vars

\* a run that may be cancelled
CancelSpec == Init /\ [][WfNext \/ cancelWorkflow \/ CatchCancelled]_vars

----------------------------------------------------------------------------
(* Properties of admission (checked under AdmissionSpec)                    *)

Done(p) == h[p].pc = "done"

SameEvent(p, q) == h[p].event = h[q].event

\* The clock starts at 0, so while now < ttlSeconds every call made so far
\* lies within one TTL window.
WithinTtl == now < ttlSeconds

\* the number of SelfHealingWorkflow executions started for an event
NumStarted(e) == Cardinality({i \in 1..Len(started) : started[i].event = e})

\* C3: two admissions of one (repository, runId, headSha), one after the
\* other and within the TTL, produce exactly one case: when the first
\* started a workflow, that workflow is the only one started for the event.
C3_SecondAdmissionIsDuplicate ==
    \A p, q \in Handlers :
        (/\ p # q /\ Done(p) /\ Done(q)
         /\ h[p].op = "handleWorkflowFailure"
         /\ h[q].op = "handleWorkflowFailure"
         /\ SameEvent(p, q)
         /\ p \in h[q].after
         /\ \A r \in Handlers \ {p, q} : h[r].pc = "idle" \/ ~SameEvent(r, p)
         /\ WithinTtl
         /\ h[p].startedWf)
        => (NumStarted(h[p].event) = 1 /\ ~h[q].startedWf)

\* C4: the index serialises concurrent calls on one key: of the calls on one
\* key made within a TTL window against a working store, whatever the
\* interleaving of their read and store steps, at most one is answered
\* 'not a duplicate'.
C4_AtMostOneAdmissionPerKey ==
    \A p, q \in Handlers :
        (/\ p # q /\ Done(p) /\ Done(q)
         /\ SameEvent(p, q)
         /\ ~h[p].degraded /\ ~h[q].degraded
         /\ WithinTtl)
        => (h[p].dup \/ h[q].dup)

\* (what the index does give: with a working store, a call that begins
\* after an admitting call on the same key has returned is a duplicate)
SequentialHealthyDedup ==
    \A p, q \in Handlers :
        (/\ p # q /\ Done(p) /\ Done(q)
         /\ SameEvent(p, q)
         /\ p \in h[q].after
         /\ ~h[p].degraded /\ ~h[q].degraded
         /\ WithinTtl)
        => h[q].dup


\* C16: the identity of a case is a function of the whole triple
\* (repository, runId, headSha): workflows started for events that differ
\* in any component, headSha included, have different workflow ids.
C16_WorkflowIdIdentifiesTriple ==
    \A i, j \in 1..Len(started) :
        started[i].event # started[j].event
        => started[i].workflowId # started[j].workflowId

\* (the dedup key does identify the triple: it is one-to-one on events)
DedupKeyIdentifiesTriple ==
    \A p, q \in Handlers :
        (h[p].pc # "idle" /\ h[q].pc # "idle" /\ ~SameEvent(p, q))
        => redisKey(eventId(h[p].event)) # redisKey(eventId(h[q].event))

\* C29: every admission answered 'not a duplicate' that leaves the key in
\* the dedup index results in a started workflow for that event: no state
\* has the key of an event stored (so that re-submissions within the TTL
\* are discarded as duplicates) and no workflow started for it.
C29_StoredKeyHasWorkflow ==
    \A p \in Handlers :
        (/\ h[p].pc = "done"
         /\ h[p].op = "handleWorkflowFailure"
         /\ ~h[p].dup
         /\ existing(redisKey(eventId(h[p].event))))
        => \E i \in 1..Len(started) : started[i].event = h[p].event

\* C34: when the dedup store fails (the read or the write raises an error,
\* or there is no client) the admission is answered 'not a duplicate': a
\* store failure never causes an event to be reported as a duplicate.
C34_StoreFailureAdmits ==
    \A p \in Handlers : (Done(p) /\ h[p].degraded) => ~h[p].dup

\* a call whose read raised an error is answered 'not a duplicate' although
\* an earlier call had stored the key and the TTL has not elapsed
C34_Witness ==
    \E p, q \in Handlers :
        /\ p # q /\ Done(p) /\ Done(q)
        /\ SameEvent(p, q)
        /\ q \in h[p].after
        /\ ~h[q].degraded /\ ~h[q].dup
        /\ existing(redisKey(eventId(h[p].event)))
        /\ redisFault /\ h[p].degraded /\ ~h[p].dup

\* handler p reads the index in this step
Reads(p) == h[p].pc = "get" /\ h'[p].pc # "get"

\* the read of handler p met no error and no missing client
HealthyRead(p) == ~h'[p].degraded /\ redisFault' = redisFault

----------------------------------------------------------------------------
(* Properties of the failure report (checked under ReportSpec)              *)

\* the segment is text that a secret pattern matches
IsSecret(segment) ==
    \E i \in 1..Len(SECRET_PATTERNS) : Matches(SECRET_PATTERNS[i], segment)

HasSecret(text) == text # Absent /\ \E i \in 1..Len(text) : IsSecret(text[i])

\* C15: content from logs and test output is redacted before it is put in
\* the report, and a redaction is recorded as the placeholder and a count:
\* no text that matched a secret pattern is in the built FailureReport.
C15_NoSecretInBuiltReport ==
    built # NoReport
    => /\ \A key \in DOMAIN built.logs : ~HasSecret(built.logs[key])
       /\ ~HasSecret(built.redactedSecrets)
       /\ ~HasSecret(built.testResults)

\* (what the redactor does give: the log texts of the report are free of
\* matches, one placeholder for each)
LogTextsAreRedacted ==
    \A key \in DOMAIN report.logs : ~HasSecret(report.logs[key])

\* (and what it records: the matched texts themselves)
RedactedSecretsAreTheMatches ==
    \A i \in 1..Len(report.redactedSecrets) :
        IsSecret(report.redactedSecrets[i])

----------------------------------------------------------------------------
(* Properties of the prover (checked under ProverSpec)                      *)

\* criticalityThreshold default
criticalityThreshold == "medium"

Rank(level) == CHOOSE i \in 1..Len(Criticality) : Criticality[i] = level

\* the invariant named i of the request is required
Required(i) == Rank(proofRequest.invariants[i]) >= Rank(criticalityThreshold)

\* the invariant named i was proven
Proven(i) ==
    \E j \in 1..Len(proofResult.validatedTheorems) :
        proofResult.validatedTheorems[j].name = i

Answered == proofResult # NoValidation /\ ~proofResult.error

\* C17: the verdict is pass exactly when every required invariant
\* (criticality medium or above) is proven: a request without a required
\* invariant passes, one with a required invariant unproven fails.
C17_PassIffRequiredProven ==
    Answered
    => (proofResult.success
        <=> \A i \in 1..Len(proofRequest.invariants) :
                Required(i) => Proven(i))

\* (the verdict the client computes: pass exactly when some theorem is
\* proven)
PassIffSomeProven ==
    Answered
    => (proofResult.success
        <=> \E i \in 1..Len(proofRequest.invariants) : Proven(i))

----------------------------------------------------------------------------
(* Properties of a run in its surroundings                                  *)

\* C18: once the elapsed time exceeds the deadline (20 minutes after the
\* start), the next transition of the case, in whatever phase, is the one
\* to FAILED (reason TIMEOUT).
C18_PastDeadlineNextIsFailed ==
    [][(elapsed > 20 /\ currentState' # currentState)
       => (currentState' = "FAILED")]_vars

\* (the clock has no effect on the run: a run past the deadline can still
\* be merged and DONE)
PastDeadlineNeverDone ==
    elapsed > 20 => currentState # "DONE"

\* C19: a cancelled case records the transition to FAILED (reason
\* CANCELLED) before the run exits.
C19_CancelledCaseRecordsFailed ==
    (cancelRequested /\ RunOver)
    => (InSeq("FAILED", statusLog)
        \/ InSeq("workflow.state.failed", events))

\* (what does hold of a cancelled run: it invokes no further activity, and
\* it ends, with the local currentState FAILED and no result)
CancelledRunStops ==
    [][cancelRequested
       => (calls' = calls /\ statusLog' = statusLog /\ events' = events)]_vars

CancelledRunEnds ==
    (cancelRequested /\ pc # "catch")
    => (pc = "thrown" /\ currentState = "FAILED" /\ error = ErrCancelled
        /\ result = NoResult)

----------------------------------------------------------------------------
(* Properties of the execution (checked under ExecSpec)                     *)

\* C20: across crashes in the middle of an activity call, the activity is
\* invoked at most maximumAttempts + 1 times for the case.
C20_InvocationsAcrossCrashes ==
    exec.crashes > 0 => exec.invocations <= maximumAttempts + 1

\* (within one run the bound holds: a crashed attempt counts as one of the
\* maximumAttempts of the call)
InvocationsWithinOneRun ==
    exec.run = 1 => exec.invocations <= maximumAttempts

\* (every invocation beyond the attempts of one call belongs to a later run
\* of the workflow)
InvocationsByRun ==
    exec.invocations <= exec.run * maximumAttempts
----------------------------------------------------------------------------
(* FreestyleClient: properties                                             *)

SuccessCount(rr) == Cardinality({i \in 1..Len(rr) : rr[i]})

\* the runs of a finished execution have mixed outcomes
Mixed == /\ tests.pc = "done"
         /\ tests.executed.status = "ok"
         /\ SuccessCount(tests.retryResults) \in 1..(Len(tests.retryResults) - 1)

\* the result the workflow receives carries the flakiness of the test runs
FlakyRecorded(r) ==
    /\ "testOutcome" \in DOMAIN r
    /\ r.testOutcome.flaky

\* C23: a flaky verdict (mixed outcomes over the runs) counts as a pass for
\* the promotion to PROVE, and the flakiness is recorded on the case: the
\* result handed to the workflow has testOutcome.flaky = TRUE.
C23_FlakyPassesAndIsRecorded ==
    Mixed => /\ tests.activity.success
             /\ FlakyRecorded(tests.activity)

\* (the two halves: a flaky verdict is a pass, and FreestyleClient's own
\* result names it in testResults; the activity's result does not)
FlakyVerdictPasses ==
    Mixed => /\ tests.activity.success
             /\ tests.executed.testResults = "flaky"

\* the result of the activity is a function of the verdict's success alone
ActivityResultHasSuccessOnly ==
    tests.pc = "done" => DOMAIN tests.activity = {"success", "retryDiagnosis"}

\* C24: for N runs of which s succeeded the flakiness score is
\* 1 - |2 * (s / N) - 1|, that is N * score = N - |2 * s - N|: 0 when all
\* runs agree, largest when the outcomes are evenly mixed.
C24_ScoreIsLargestWhenMixed ==
    (tests.pc = "done" /\ tests.executed.status = "ok"
        /\ Len(tests.retryResults) >= 1)
    => LET N == Len(tests.retryResults)
           s == SuccessCount(tests.retryResults)
           score == tests.executed.flakinessScore
       IN  N * score.num = (N - Abs(2 * s - N)) * score.den

\* (what the code computes for two runs or more: the score is
\* |N - 2 * s| / N, 1 when all runs agree and 0 when evenly mixed)
ScoreIsLargestWhenRunsAgree ==
    (tests.pc = "done" /\ tests.executed.status = "ok"
        /\ Len(tests.retryResults) >= 2)
    => LET N == Len(tests.retryResults)
           s == SuccessCount(tests.retryResults)
           score == tests.executed.flakinessScore
       IN  N * score.num = Abs(2 * s - N) * score.den

\* C38: the runner repeats the suite retryCount times: for a deterministic
\* suite exactly retryCount run results are recorded whatever the outcomes,
\* for a suite that is not deterministic the runs stop at the first one
\* that passes, and never more than retryCount results are recorded.
C38_RunsRepeatRetryCountTimes ==
    LET rr == tests.retryResults
        over == tests.pc = "done" /\ tests.executed.status = "ok"
    IN  /\ Len(rr) <= tests.retryCount
        /\ (over /\ tests.deterministic) => Len(rr) = tests.retryCount
        /\ ~tests.deterministic => \A i \in 1..(Len(rr) - 1) : ~rr[i]
        /\ (over /\ ~tests.deterministic)
              => (Len(rr) = tests.retryCount \/ rr[Len(rr)])

\* a deterministic suite whose first run passed and that was run three
\* times all the same
C38_Witness ==
    /\ tests.pc = "done"
    /\ tests.deterministic
    /\ tests.retryCount = 3
    /\ tests.retryResults = <<TRUE, FALSE, TRUE>>

----------------------------------------------------------------------------
(* ClaudeClient: properties                                                *)

\* the messages of the model that name a transient condition (rate limit,
\* timeout, network, server)
ClassifiedTransient ==
    { <<"rate_limit_exceeded">>, <<"NETWORK_ERROR">>, <<"server_error">>,
      <<"request", "timeout">>,
      <<"invalid_request_error", "timeout", "must", "be", "positive">> }

C26_AtMostRetryAttemptsCalls == api.created <= api.retryAttempts

\* (the loop runs attempt = 0 .. retryAttempts: one call more)
AtMostRetryAttemptsPlusOneCalls == api.created <= api.retryAttempts + 1

\* C27: the delay slept before a retry is capped: for every attempt number
\* and every jitter value it does not exceed the configured cap.
C27_DelayWithinCap == api.pc = "sleep" => api.backoffDelay <= maxDelay

\* (the jitter, up to a second, is added to the capped delay)
DelayWithinCapPlusJitter ==
    api.pc = "sleep" => api.backoffDelay < maxDelay + 1000

----------------------------------------------------------------------------
(* The workflow_run handler: properties                                    *)

\* a handler has entered handleWorkflowFailure in this step
Entered == \E p \in Handlers : h[p].pc = "idle" /\ h'[p].pc = "get"

\* C28: an event older than the cutoff of 24 hours is rejected: it is not
\* passed to the dedup index and starts no workflow; an event whose age is
\* exactly the cutoff is still admitted.
C28_StaleEventsAreRejected ==
    /\ [](gate.last.age > twentyFourHours => ~gate.triggered)
    /\ []((/\ gate.last.age = twentyFourHours
           /\ gate.last.conclusion = "failure"
           /\ gate.last.name = "test") => gate.triggered)
    /\ [][/\ Entered => (gate'.triggered /\ gate'.last.age <= twentyFourHours)
          /\ (store' # store \/ started' # started) => ~Entered
          /\ (gate'.last.age > twentyFourHours /\ gate' # gate)
                => UNCHANGED <<h, store, started, running>>]_vars

\* an event of age exactly 24 hours has started a workflow
C28_Witness ==
    /\ gate.last.age = twentyFourHours
    /\ gate.triggered
    /\ \E p \in Handlers :
          /\ h[p].pc = "done" /\ h[p].startedWf
          /\ \A q \in Handlers \ {p} : h[q].pc = "idle"
    /\ Len(started) = 1

----------------------------------------------------------------------------
(* MorphClient: properties                                                 *)

\* C36: failed patches are reverted: when the patch was applied through the
\* Morph API and the compilation check then fails, the patch is rolled back
\* before applyPatch returns the failure, so a failed applyPatch leaves no
\* applied change behind.
C36_FailedPatchIsRolledBack ==
    (morph.pc = "done" /\ ~morph.success) => ~morph.applied

----------------------------------------------------------------------------
(* The token budget: properties                                            *)

PriorityFields ==
    {"failureMessage", "errorLogs", "testLogs", "diff", "failedTests"}

\* C39: when the estimated token size of the prompt exceeds the budget, the
\* report is truncated so that each of the priority fields is at most an
\* equal share of the budget (a fifth of 4 * maxTokens characters), and
\* the estimated token size of the truncated prompt does not exceed the
\* budget.
C39_TruncatedPromptFitsBudget ==
    (prompt.pc = "invoke" /\ prompt.truncating)
    => /\ \A f \in PriorityFields :
             5 * prompt.report[f] <= 4 * prompt.maxTokens
       /\ estimateTokenCount(buildUserPrompt(prompt.report))
             <= prompt.maxTokens

\* (what the truncation gives: the two logs and the diff are at most the
\* share and the three characters of the ellipsis)
TruncatedFieldsFitSharePlusEllipsis ==
    (prompt.pc = "invoke" /\ prompt.truncating)
    => \A f \in {"errorLogs", "testLogs", "diff"} :
          prompt.report[f] <= (prompt.maxTokens * 4) \div 5 + 3

====
